---- MODULE Spec2Model ----
(***************************************************************************)
(* Gestr: the signaling hub of server.js (rooms registry, the per-         *)
(* connection message/close handlers, leaveRoom and broadcastToRoom).      *)
(*                                                                         *)
(* JavaScript values are modelled as strings: Undefined is the value of a  *)
(* property that is absent, Null is null.  A parsed message is a record    *)
(* over Fields whose absent properties read Undefined, exactly as          *)
(* `data.roomId` does in the source; JSONstringify drops them again.       *)
(* A Set of connections is a duplicate-free sequence in insertion order,   *)
(* which is the order Set.prototype.forEach visits it.                     *)
(***************************************************************************)
EXTENDS Integers, Sequences, FiniteSets, TLC

(* ------------------------------ bounds --------------------------------- *)
(* MaxEvents bounds the inbound messages the hub handles in Spec,          *)
(* MaxOrderEvents those it handles in SpecOrder, where the relay history   *)
(* is kept.                                                                *)
MaxEvents == 3
MaxOrderEvents == 4

(* The connection handles (the `ws` objects) and the values of Date.now(). *)
Sessions == {"s1", "s2", "s3"}
Clock == {"1700000000000"}

(* ------------------------- JavaScript values --------------------------- *)
Undefined == "<undefined>"
Null == "<null>"
OPEN == 1
CONNECTING == OPEN - 1
CLOSING == OPEN + 1
CLOSED == OPEN + 2

Truthy(v) == v \notin {Undefined, Null, ""}

Fields == {"type", "roomId", "userId", "from", "sdp", "message"}
EmptyObject == [f \in Fields |-> Undefined]

ObjectSpread(a, b) == [f \in Fields |-> IF b[f] # Undefined THEN b[f] ELSE a[f]]

JSONstringify(m) == [f \in {g \in Fields : m[g] # Undefined} |-> m[f]]

ForwardTypes == {"offer", "answer", "ice-candidate", "transcription", "asl-letter"}

(* ------------------------- inputs of the model ------------------------- *)
RoomIdInputs == {Undefined, "", "r1", "r2"}
UserIdInputs == {Undefined, "alice"}
FromInputs == {Undefined, "mallory"}

JoinInputs ==
  {[EmptyObject EXCEPT !.type = "join", !.roomId = r, !.userId = u] :
     r \in RoomIdInputs, u \in UserIdInputs}
ForwardInputs ==
  {[EmptyObject EXCEPT !.type = t, !.sdp = "X", !.from = f] :
     t \in {"offer"}, f \in FromInputs}
OtherInputs ==
  {[EmptyObject EXCEPT !.type = "leave"], [EmptyObject EXCEPT !.type = "ping"]}
Inbound == JoinInputs \cup ForwardInputs \cup OtherInputs

(* ------------------------------- state --------------------------------- *)
VARIABLES rooms, currentRoom, userId, readyState, trace, last, history, nrecv,
          sendFails

(* The module state of letterClassifier.js, the worker processes it has   *)
(* spawned, its timers, the clock, and the classify calls with the        *)
(* continuations the event loop still owes them.                          *)
VARIABLES pythonProcess, stdoutInterface, requestCounter, pendingRequests,
          workerReady, readyCallbacks, killed, procs, observed, call,
          microtasks, timers, clock, wlast

(* The browser side: per client of the useWebRTC hook, the messages in     *)
(* flight to the hub (wsOut) and from it (wsIn), whether ws.onopen has     *)
(* run, and its RTCPeerConnection.                                         *)
VARIABLES wsOut, wsIn, opened, pc

(* The useASLRecognition hook: the `mounted` flag of each run of its       *)
(* effect, the number of runs so far, the two refs, and the classification *)
(* requests it has issued.                                                 *)
VARIABLES mounted, effectRuns, intervalRef, processingRef, requests

rtcvars == <<wsOut, wsIn, opened, pc>>

aslvars == <<mounted, effectRuns, intervalRef, processingRef, requests>>

(* VideoCall's accumulation of detected letters: the text, the two refs,   *)
(* the state updates React has queued for the next render, and a record of *)
(* the calls made (detections, lastCall) and of the letters added (grown). *)
VARIABLES accumulatedASLText, lastLetterRef, letterStabilityRef, updates,
          detections, grown, lastCall

textvars == <<accumulatedASLText, lastLetterRef, letterStabilityRef, updates,
              detections, grown, lastCall>>

clientvars == <<rtcvars, aslvars, textvars>>

hubvars == <<rooms, currentRoom, userId, readyState, trace, last, history, nrecv,
             sendFails>>

wvars == <<pythonProcess, stdoutInterface, requestCounter, pendingRequests,
           workerReady, readyCallbacks, killed, procs, observed, call,
           microtasks, timers, clock, wlast>>

vars == <<rooms, currentRoom, userId, readyState, trace, last, history, nrecv,
          sendFails, wvars, clientvars>>

(* A process is spawned by a classify call only, so there are never more *)
(* processes than calls.  The clock moves in steps of one timeout delay.  *)
MaxCalls == 2
MaxSpawns == MaxCalls
MaxTicks == 1
REQUEST_TIMEOUT_MS == 30000
TickMs == REQUEST_TIMEOUT_MS
Pending(pr) == {pr[k] : k \in DOMAIN pr}

Calls == 1..MaxCalls
Procs == 1..MaxSpawns

(* null in pythonProcess / stdoutInterface; the id of a call that has not *)
(* reached line 140 yet.                                                  *)
NoProcess == 0
NoId == [t |-> 0, n |-> 0]

NoOutcome == [kind |-> "none", letter |-> Undefined, confidence |-> Undefined,
              message |-> Undefined]
NoLine == [text |-> "", id |-> NoId, letter |-> Undefined,
           confidence |-> Undefined, error |-> Undefined]
NoCall == [pc |-> "idle", id |-> NoId, issued |-> 0, proc |-> NoProcess, early |-> FALSE,
           outcome |-> NoOutcome, via |-> NoLine, nsettle |-> 0]
(* The listener that ran last: the readiness sentinel ("ready"), a timer *)
(* callback and its call, a stdout line and the id it carried, an exit    *)
(* and the calls that were pending when it began; "other" for the rest.   *)
WLast(op, c, id, pre) == [op |-> op, call |-> c, id |-> id, pre |-> pre]
WOther == WLast("other", 0, NoId, {})

WorkerInit ==
  /\ pythonProcess = NoProcess
  /\ stdoutInterface = NoProcess
  /\ requestCounter = 0
  /\ pendingRequests = [k \in {} |-> 0]
  /\ workerReady = FALSE
  /\ readyCallbacks = <<>>
  /\ killed = {}
  /\ procs = [p \in Procs |-> "unspawned"]
  /\ observed = {}
  /\ call = [c \in Calls |-> NoCall]
  /\ microtasks = <<>>
  /\ timers = {}
  /\ clock = 0
  /\ wlast = WOther

(* ------------------------ Map and Set primitives ----------------------- *)
Range(s) == {s[i] : i \in 1..Len(s)}
MapSet(m, k, v) == [x \in DOMAIN m \cup {k} |-> IF x = k THEN v ELSE m[x]]
MapDelete(m, k) == [x \in DOMAIN m \ {k} |-> m[x]]
SetAdd(s, x) == IF x \in Range(s) THEN s ELSE Append(s, x)
SetDelete(s, x) == SelectSeq(s, LAMBDA y : y # x)

NoMsg == [type |-> "<none>"]
SendEntry(to, room, m) == [kind |-> "send", to |-> to, room |-> room, msg |-> JSONstringify(m)]
MutEntry(kind, ws, room) == [kind |-> kind, to |-> ws, room |-> room, msg |-> NoMsg]

(* ---------------------------- broadcastToRoom -------------------------- *)
(* Variant: the sender is not excluded from the fan-out.                   *)
broadcastToRoom_toSender(rms, roomId, senderWs, message) ==
  IF roomId \in DOMAIN rms
  THEN LET targets == SelectSeq(rms[roomId], LAMBDA ws : readyState[ws] = OPEN)
       IN [i \in 1..Len(targets) |-> SendEntry(targets[i], roomId, message)]
  ELSE <<>>

(* Variant: the fan-out visits every connection of the server (as          *)
(* wss.clients.forEach would), not the members of roomId.                  *)
SessionSeq == CHOOSE q \in [1..Cardinality(Sessions) -> Sessions] : Range(q) = Sessions
broadcastToRoom_allClients(rms, roomId, senderWs, message) ==
  IF roomId \in DOMAIN rms
  THEN LET targets == SelectSeq(SessionSeq,
                        LAMBDA ws : ws # senderWs /\ readyState[ws] = OPEN)
       IN [i \in 1..Len(targets) |-> SendEntry(targets[i], roomId, message)]
  ELSE <<>>

(* sendFails holds the connections whose ws.send raises.  A send that    *)
(* raises inside room.forEach ends the loop: the members visited before   *)
(* it have their message, the one that raised and those after it do not.  *)
Reached(targets) ==
  LET bad == {i \in 1..Len(targets) : targets[i] \in sendFails}
  IN IF bad = {} THEN Len(targets)
     ELSE (CHOOSE i \in bad : \A j \in bad : i <= j) - 1

broadcastToRoom(rms, roomId, senderWs, message) ==
  IF roomId \in DOMAIN rms
  THEN LET targets == SelectSeq(rms[roomId],
                        LAMBDA ws : ws # senderWs /\ readyState[ws] = OPEN)
       IN [i \in 1..Reached(targets) |-> SendEntry(targets[i], roomId, message)]
  ELSE <<>>

broadcastThrows(rms, roomId, senderWs) ==
  /\ roomId \in DOMAIN rms
  /\ \E ws \in Range(rms[roomId]) :
       ws # senderWs /\ readyState[ws] = OPEN /\ ws \in sendFails

(* ------------------------------- leaveRoom ----------------------------- *)
(* Variant: the empty room is not cleaned up.                              *)
leaveRoom_keepEmpty(rms, roomId, ws, uid) ==
  IF roomId \in DOMAIN rms
  THEN LET room == SetDelete(rms[roomId], ws)
           rms1 == [rms EXCEPT ![roomId] = room]
           notify == IF Truthy(uid)
                     THEN broadcastToRoom(rms1, roomId, ws,
                            [EmptyObject EXCEPT !.type = "peer-left", !.from = uid])
                     ELSE <<>>
           threw == Truthy(uid) /\ broadcastThrows(rms1, roomId, ws)
       IN [rooms |-> rms1,
           out |-> <<MutEntry("delete", ws, roomId)>> \o notify,
           threw |-> threw]
  ELSE [rooms |-> rms, out |-> <<>>, threw |-> FALSE]

leaveRoom(rms, roomId, ws, uid) ==
  IF roomId \in DOMAIN rms
  THEN LET room == SetDelete(rms[roomId], ws)
           rms1 == [rms EXCEPT ![roomId] = room]
           notify == IF Truthy(uid)
                     THEN broadcastToRoom(rms1, roomId, ws,
                            [EmptyObject EXCEPT !.type = "peer-left", !.from = uid])
                     ELSE <<>>
           threw == Truthy(uid) /\ broadcastThrows(rms1, roomId, ws)
       IN [rooms |-> IF ~threw /\ Len(room) = 0 THEN MapDelete(rms1, roomId) ELSE rms1,
           out |-> <<MutEntry("delete", ws, roomId)>> \o notify,
           threw |-> threw]
  ELSE [rooms |-> rms, out |-> <<>>, threw |-> FALSE]

(* ------------------------ ws.on('message') cases ----------------------- *)
(* Variant: peer-joined is broadcast with no sender to exclude.            *)
joinCase_notifyAll(ws, data, now) ==
  LET left == IF Truthy(currentRoom[ws])
              THEN leaveRoom(rooms, currentRoom[ws], ws, userId[ws])
              ELSE [rooms |-> rooms, out |-> <<>>, threw |-> FALSE]
      cr == data.roomId
      uid == IF Truthy(data.userId) THEN data.userId ELSE "user-" \o now
      rms1 == IF cr \notin DOMAIN left.rooms THEN MapSet(left.rooms, cr, <<>>) ELSE left.rooms
      rms2 == [rms1 EXCEPT ![cr] = SetAdd(@, ws)]
  IN IF left.threw
     THEN [rooms |-> left.rooms, currentRoom |-> currentRoom[ws], userId |-> userId[ws],
           out |-> left.out, threw |-> TRUE]
     ELSE [rooms |-> rms2, currentRoom |-> cr, userId |-> uid,
           out |-> left.out
                   \o <<MutEntry("add", ws, cr)>>
                   \o IF ws \in sendFails THEN <<>>
                      ELSE <<SendEntry(ws, Null,
                               [EmptyObject EXCEPT !.type = "joined", !.roomId = cr,
                                                   !.userId = uid])>>
                           \o broadcastToRoom(rms2, cr, Null,
                                [EmptyObject EXCEPT !.type = "peer-joined", !.userId = uid]),
           threw |-> ws \in sendFails \/ broadcastThrows(rms2, cr, Null)]

(* Variant: userId is assigned before the previous room is left.          *)
joinCase_leavesAsNew(ws, data, now) ==
  LET uid == IF Truthy(data.userId) THEN data.userId ELSE "user-" \o now
      left == IF Truthy(currentRoom[ws])
              THEN leaveRoom(rooms, currentRoom[ws], ws, uid)
              ELSE [rooms |-> rooms, out |-> <<>>, threw |-> FALSE]
      cr == data.roomId
      rms1 == IF cr \notin DOMAIN left.rooms THEN MapSet(left.rooms, cr, <<>>) ELSE left.rooms
      rms2 == [rms1 EXCEPT ![cr] = SetAdd(@, ws)]
  IN IF left.threw
     THEN [rooms |-> left.rooms, currentRoom |-> currentRoom[ws], userId |-> userId[ws],
           out |-> left.out, threw |-> TRUE]
     ELSE [rooms |-> rms2, currentRoom |-> cr, userId |-> uid,
           out |-> left.out
                   \o <<MutEntry("add", ws, cr)>>
                   \o IF ws \in sendFails THEN <<>>
                      ELSE <<SendEntry(ws, Null,
                               [EmptyObject EXCEPT !.type = "joined", !.roomId = cr,
                                                   !.userId = uid])>>
                           \o broadcastToRoom(rms2, cr, ws,
                                [EmptyObject EXCEPT !.type = "peer-joined", !.userId = uid]),
           threw |-> ws \in sendFails \/ broadcastThrows(rms2, cr, ws)]

joinCase(ws, data, now) ==
  LET left == IF Truthy(currentRoom[ws])
              THEN leaveRoom(rooms, currentRoom[ws], ws, userId[ws])
              ELSE [rooms |-> rooms, out |-> <<>>, threw |-> FALSE]
      cr == data.roomId
      uid == IF Truthy(data.userId) THEN data.userId ELSE "user-" \o now
      rms1 == IF cr \notin DOMAIN left.rooms THEN MapSet(left.rooms, cr, <<>>) ELSE left.rooms
      rms2 == [rms1 EXCEPT ![cr] = SetAdd(@, ws)]
  IN IF left.threw
     THEN [rooms |-> left.rooms, currentRoom |-> currentRoom[ws], userId |-> userId[ws],
           out |-> left.out, threw |-> TRUE]
     ELSE [rooms |-> rms2, currentRoom |-> cr, userId |-> uid,
           out |-> left.out
                   \o <<MutEntry("add", ws, cr)>>
                   \o IF ws \in sendFails THEN <<>>
                      ELSE <<SendEntry(ws, Null,
                               [EmptyObject EXCEPT !.type = "joined", !.roomId = cr,
                                                   !.userId = uid])>>
                           \o broadcastToRoom(rms2, cr, ws,
                                [EmptyObject EXCEPT !.type = "peer-joined", !.userId = uid]),
           threw |-> ws \in sendFails \/ broadcastThrows(rms2, cr, ws)]

(* Variant: `{from: userId, ...data}`, the client's own `from` wins.        *)
forwardCase_clientFrom(ws, data) ==
  [rooms |-> rooms, currentRoom |-> currentRoom[ws], userId |-> userId[ws],
   out |-> IF Truthy(currentRoom[ws])
           THEN broadcastToRoom(rooms, currentRoom[ws], ws,
                  ObjectSpread([EmptyObject EXCEPT !.from = userId[ws]], data))
           ELSE <<>>,
   threw |-> Truthy(currentRoom[ws]) /\ broadcastThrows(rooms, currentRoom[ws], ws)]

forwardCase(ws, data) ==
  [rooms |-> rooms, currentRoom |-> currentRoom[ws], userId |-> userId[ws],
   out |-> IF Truthy(currentRoom[ws])
           THEN broadcastToRoom(rooms, currentRoom[ws], ws,
                  ObjectSpread(data, [EmptyObject EXCEPT !.from = userId[ws]]))
           ELSE <<>>,
   threw |-> Truthy(currentRoom[ws]) /\ broadcastThrows(rooms, currentRoom[ws], ws)]

leaveCase(ws) ==
  IF Truthy(currentRoom[ws])
  THEN LET left == leaveRoom(rooms, currentRoom[ws], ws, userId[ws])
       IN [rooms |-> left.rooms,
           currentRoom |-> IF left.threw THEN currentRoom[ws] ELSE Null,
           userId |-> userId[ws],
           out |-> left.out, threw |-> left.threw]
  ELSE [rooms |-> rooms, currentRoom |-> currentRoom[ws], userId |-> userId[ws],
        out |-> <<>>, threw |-> FALSE]

(* Variant: a `default:` label that relays what the switch does not know. *)
noCase_relay(ws) ==
  [rooms |-> rooms, currentRoom |-> currentRoom[ws], userId |-> userId[ws],
   out |-> IF Truthy(currentRoom[ws])
           THEN broadcastToRoom(rooms, currentRoom[ws], ws,
                  [EmptyObject EXCEPT !.from = userId[ws]])
           ELSE <<>>,
   threw |-> Truthy(currentRoom[ws]) /\ broadcastThrows(rooms, currentRoom[ws], ws)]

noCase(ws) ==
  [rooms |-> rooms, currentRoom |-> currentRoom[ws], userId |-> userId[ws], out |-> <<>>,
   threw |-> FALSE]

(* The catch block: the error reply to the sender.                         *)
catchSend(ws) ==
  <<SendEntry(ws, Null,
      [EmptyObject EXCEPT !.type = "error", !.message = "Invalid message format"])>>

catchCase(ws) ==
  [rooms |-> rooms, currentRoom |-> currentRoom[ws], userId |-> userId[ws],
   out |-> catchSend(ws), threw |-> FALSE]

switchCase(ws, data, now) ==
  CASE data.type = "join" -> joinCase(ws, data, now)
    [] data.type \in ForwardTypes -> forwardCase(ws, data)
    [] data.type = "leave" -> leaveCase(ws)
    [] OTHER -> noCase(ws)

(* try { switch } catch { error reply }: what the switch did before the   *)
(* exception stays done.                                                   *)
handleMessage(ws, data, now) ==
  LET r == switchCase(ws, data, now)
  IN IF r.threw THEN [r EXCEPT !.out = @ \o catchSend(ws)] ELSE r

(* ------------------------- history of the relay ------------------------ *)
(* The n-th inbound message the hub handles and every ws.send call made    *)
(* while it is handled, in the order they happen.                          *)
Sends(out) == SelectSeq(out, LAMBDA e : e.kind = "send")
(* Variant: the sends of a message are queued and leave the hub only after *)
(* the next inbound message has been taken up.                             *)
Record_deferred(hist, n, ws, out) ==
  [i \in 1..Len(Sends(out)) |-> [ev |-> "send", ws |-> Sends(out)[i].to, n |-> n]]
       \o hist \o <<[ev |-> "recv", ws |-> ws, n |-> n]>>

Record(hist, n, ws, out) ==
  hist \o <<[ev |-> "recv", ws |-> ws, n |-> n]>>
       \o [i \in 1..Len(Sends(out)) |-> [ev |-> "send", ws |-> Sends(out)[i].to, n |-> n]]

(* ------------------------------- actions ------------------------------- *)
(* Two browsers with the call page open.                                   *)
RTCClients == {"s1", "s2"}
(* new RTCPeerConnection(iceServers): nothing negotiated, and what the     *)
(* hook has done with it so far.                                           *)
NoPc == [signalingState |-> "stable", localDescription |-> Null,
         remoteDescription |-> Null, offers |-> 0, answers |-> 0, candidates |-> 0]

(* Runs of the effect of useASLRecognition and requests it may issue.      *)
MaxEffects == 2
MaxRequests == 2
Effects == 1..MaxEffects
NoInterval == 0

ASLInit ==
  /\ mounted = [e \in Effects |-> FALSE]
  /\ effectRuns = 0
  /\ intervalRef = NoInterval
  /\ processingRef = FALSE
  /\ requests = <<>>

TextInit ==
  /\ accumulatedASLText = <<>>
  /\ lastLetterRef = Null
  /\ letterStabilityRef = 0
  /\ updates = <<>>
  /\ detections = <<>>
  /\ grown = {}
  /\ lastCall = "none"

ClientInit ==
  /\ ASLInit
  /\ TextInit
  /\ wsOut = [c \in RTCClients |-> <<>>]
  /\ wsIn = [c \in RTCClients |-> <<>>]
  /\ opened = [c \in RTCClients |-> FALSE]
  /\ pc = [c \in RTCClients |-> NoPc]

Init ==
  /\ rooms = [k \in {} |-> <<>>]
  /\ currentRoom = [s \in Sessions |-> Null]
  /\ userId = [s \in Sessions |-> Null]
  /\ readyState = [s \in Sessions |-> CONNECTING]
  /\ trace = <<>>
  /\ last = [op |-> "init", ws |-> Null, data |-> EmptyObject, pre |-> [k \in {} |-> <<>>],
            cur |-> Null]
  /\ history = <<>>
  /\ nrecv = 0
  /\ sendFails = {}
  /\ WorkerInit
  /\ ClientInit

Connection(ws) ==
  /\ readyState[ws] = CONNECTING
  /\ readyState' = [readyState EXCEPT ![ws] = OPEN]
  /\ currentRoom' = [currentRoom EXCEPT ![ws] = Null]
  /\ userId' = [userId EXCEPT ![ws] = Null]
  /\ trace' = <<>>
  /\ last' = [op |-> "connection", ws |-> ws, data |-> EmptyObject, pre |-> rooms, cur |-> currentRoom[ws]]
  /\ UNCHANGED <<rooms, history, nrecv, sendFails, wvars, clientvars>>

Apply(ws, r, data, op) ==
  /\ rooms' = r.rooms
  /\ currentRoom' = [currentRoom EXCEPT ![ws] = r.currentRoom]
  /\ userId' = [userId EXCEPT ![ws] = r.userId]
  /\ trace' = r.out
  /\ last' = [op |-> op, ws |-> ws, data |-> data, pre |-> rooms, cur |-> currentRoom[ws]]
  /\ nrecv' = nrecv + 1
  /\ UNCHANGED <<readyState, sendFails, wvars>>

OnMessage(ws) ==
  /\ readyState[ws] = OPEN
  /\ nrecv < MaxEvents
  /\ \E data \in Inbound, now \in Clock :
       Apply(ws, handleMessage(ws, data, now), data, "message")
  /\ UNCHANGED <<history, clientvars>>

OnMalformed(ws) ==
  /\ readyState[ws] = OPEN
  /\ nrecv < MaxEvents
  /\ Apply(ws, catchCase(ws), EmptyObject, "malformed")
  /\ UNCHANGED <<history, clientvars>>

SocketClosing(ws) ==
  /\ readyState[ws] = OPEN
  /\ readyState' = [readyState EXCEPT ![ws] = CLOSING]
  /\ trace' = <<>>
  /\ last' = [op |-> "closing", ws |-> ws, data |-> EmptyObject, pre |-> rooms, cur |-> currentRoom[ws]]
  /\ UNCHANGED <<rooms, currentRoom, userId, history, nrecv, sendFails, wvars, clientvars>>

(* Variant: the close listener also stops the classifier worker.          *)
OnClose_stopsWorker(ws) ==
  /\ readyState[ws] \in {OPEN, CLOSING}
  /\ readyState' = [readyState EXCEPT ![ws] = CLOSED]
  /\ LET left == IF Truthy(currentRoom[ws])
                 THEN leaveRoom(rooms, currentRoom[ws], ws, userId[ws])
                 ELSE [rooms |-> rooms, out |-> <<>>, threw |-> FALSE]
     IN /\ ~left.threw
        /\ rooms' = left.rooms
        /\ trace' = left.out
  /\ last' = [op |-> "close", ws |-> ws, data |-> EmptyObject, pre |-> rooms, cur |-> currentRoom[ws]]
  /\ pythonProcess' = NoProcess
  /\ workerReady' = FALSE
  /\ UNCHANGED <<currentRoom, userId, history, nrecv, sendFails, clientvars>>
  /\ UNCHANGED <<stdoutInterface, requestCounter, pendingRequests, readyCallbacks,
                 killed, procs, observed, call, microtasks, timers, clock, wlast>>

(* An exception that leaves the close listener is caught by nothing: the  *)
(* run of the server ends there, so the action covers the runs that go on. *)
OnClose(ws) ==
  /\ readyState[ws] \in {OPEN, CLOSING}
  /\ readyState' = [readyState EXCEPT ![ws] = CLOSED]
  /\ LET left == IF Truthy(currentRoom[ws])
                 THEN leaveRoom(rooms, currentRoom[ws], ws, userId[ws])
                 ELSE [rooms |-> rooms, out |-> <<>>, threw |-> FALSE]
     IN /\ ~left.threw
        /\ rooms' = left.rooms
        /\ trace' = left.out
  /\ last' = [op |-> "close", ws |-> ws, data |-> EmptyObject, pre |-> rooms, cur |-> currentRoom[ws]]
  /\ UNCHANGED <<currentRoom, userId, history, nrecv, sendFails, wvars, clientvars>>

Next ==
  \E ws \in Sessions :
    \/ Connection(ws)
    \/ OnMessage(ws)
    \/ OnMalformed(ws)
    \/ SocketClosing(ws)
    \/ OnClose(ws)

Spec == Init /\ [][Next]_vars

(* ---------------- the hub with the relay history recorded -------------- *)
OrderInbound ==
  {[EmptyObject EXCEPT !.type = "join", !.roomId = "r1"],
   [EmptyObject EXCEPT !.type = "offer", !.sdp = "X"],
   [EmptyObject EXCEPT !.type = "leave"]}

OnMessageOrder(ws) ==
  /\ readyState[ws] = OPEN
  /\ nrecv < MaxOrderEvents
  /\ \E data \in OrderInbound, now \in Clock :
       LET r == handleMessage(ws, data, now)
       IN /\ Apply(ws, r, data, "message")
          /\ history' = Record(history, nrecv + 1, ws, r.out)
  /\ UNCHANGED clientvars

NextOrder ==
  \E ws \in Sessions :
    \/ Connection(ws)
    \/ OnMessageOrder(ws)
    \/ SocketClosing(ws)
    \/ OnClose(ws)

SpecOrder == Init /\ [][NextOrder]_vars

(* ------------- the hub when a ws.send of one connection raises --------- *)
MaxFailEvents == 4

FailInbound ==
  {[EmptyObject EXCEPT !.type = "join", !.roomId = "r1", !.userId = "alice"],
   [EmptyObject EXCEPT !.type = "offer", !.sdp = "X"]}

(* From now on ws.send on this connection raises.                          *)
SendBreaks(ws) ==
  /\ readyState[ws] = OPEN
  /\ sendFails = {}
  /\ sendFails' = {ws}
  /\ trace' = <<>>
  /\ last' = [op |-> "breaks", ws |-> ws, data |-> EmptyObject, pre |-> rooms,
              cur |-> currentRoom[ws]]
  /\ UNCHANGED <<rooms, currentRoom, userId, readyState, history, nrecv, wvars, clientvars>>

(* The sender's own connection works: the catch block's reply does not     *)
(* raise.                                                                  *)
OnMessageFail(ws) ==
  /\ readyState[ws] = OPEN
  /\ ws \notin sendFails
  /\ nrecv < MaxFailEvents
  /\ \E data \in FailInbound, now \in Clock :
       Apply(ws, handleMessage(ws, data, now), data, "message")
  /\ UNCHANGED <<history, clientvars>>

NextFail ==
  \E ws \in Sessions :
    \/ Connection(ws)
    \/ OnMessageFail(ws)
    \/ SendBreaks(ws)
    \/ SocketClosing(ws)
    \/ OnClose(ws)

SpecFail == Init /\ [][NextFail]_vars

(* ============== the classifier worker supervisor ====================== *)
(* src/server/letterClassifier.js.  Every listener and timer callback is  *)
(* one macrotask; the continuation of `await ensureWorker()` is a         *)
(* microtask, so no listener runs while a released call has not resumed.  *)
Rejected(message) == [NoOutcome EXCEPT !.kind = "rejected", !.message = message]
Resolved(letter, confidence) ==
  [NoOutcome EXCEPT !.kind = "resolved", !.letter = letter, !.confidence = confidence]

NotAvailable == "ASL classifier worker is not available"
TimedOut == "ASL classifier request timed out"
WorkerExited == "ASL classifier worker exited unexpectedly"
WriteFailed == "write failed"

(* resolve / reject of a call's promise; a promise keeps its first        *)
(* settlement, nsettle counts how often one of the two was called.        *)
Settle(cs, c, outcome, line) ==
  [cs EXCEPT ![c] = [@ EXCEPT !.pc = "settled",
                             !.nsettle = @ + 1,
                             !.outcome = IF @.kind = "none" THEN outcome ELSE @,
                             !.via = IF cs[c].outcome.kind = "none" THEN line ELSE @]]

(* ---- what the worker processes can put on their pipes ---------------- *)
ReadyMessage == "Classifier worker ready"
StderrInputs == {ReadyMessage, "Loading model..."}
includesReady(message) == message = ReadyMessage

UnknownId == [t |-> 0, n |-> 0 - 1]
Blank == [NoLine EXCEPT !.text = "  "]
Garbage == [NoLine EXCEPT !.text = "Traceback (most recent call last):"]
Response(id, letter, confidence, error) ==
  [text |-> "json", id |-> id, letter |-> letter, confidence |-> confidence,
   error |-> error]
(* The line of kind k about the request of call c (c = 0: about a request *)
(* that was never made).                                                   *)
LineKinds == {"blank", "garbage", "A", "B", "error"}
LineInput(c, k) ==
  LET id == IF c \in Calls THEN call[c].id ELSE UnknownId
  IN CASE k = "blank" -> Blank
       [] k = "garbage" -> Garbage
       [] k = "A" -> Response(id, "A", "0.9", Undefined)
       [] k = "B" -> Response(id, "B", "0.6", Undefined)
       [] OTHER -> Response(id, Undefined, Undefined, "bad image")
WriteOutcomes == {"written", "throws"}

trim(line) == IF line.text = Blank.text THEN "" ELSE line.text
JSONparses(line) == line.text \in {"json", "null"}
(* `const { id } = payload` raises a TypeError when payload is null.       *)
NullLine == [NoLine EXCEPT !.text = "null"]
destructures(line) == line.text # "null"

(* ---- startWorker, cleanupWorker --------------------------------------- *)
NextProc == CHOOSE p \in Procs : procs[p] = "unspawned" /\ \A q \in Procs : q < p => procs[q] # "unspawned"

startWorker ==
  IF pythonProcess # NoProcess
  THEN [pythonProcess |-> pythonProcess, stdoutInterface |-> stdoutInterface, procs |-> procs]
  ELSE [pythonProcess |-> NextProc, stdoutInterface |-> NextProc,
        procs |-> [procs EXCEPT ![NextProc] = "running"]]

(* prcs: the processes as they are when cleanupWorker runs (kill reaches  *)
(* only a process that has not exited).                                    *)
cleanupWorker(prcs) ==
  [stdoutInterface |-> NoProcess,
   killed |-> IF pythonProcess # NoProcess /\ pythonProcess \notin killed
                 /\ prcs[pythonProcess] = "running"
              THEN killed \cup {pythonProcess} ELSE killed,
   pythonProcess |-> NoProcess,
   workerReady |-> FALSE,
   readyCallbacks |-> <<>>]

(* ---- the listeners ------------------------------------------------------ *)
(* Variant: the line settles the oldest pending request, whatever its id. *)
lineHandler_oldest(line) ==
  IF trim(line) = "" \/ ~JSONparses(line) \/ DOMAIN pendingRequests = {}
  THEN [pendingRequests |-> pendingRequests, timers |-> timers, call |-> call]
  ELSE LET id == CHOOSE k \in DOMAIN pendingRequests :
                   \A j \in DOMAIN pendingRequests : k.n <= j.n
           c == pendingRequests[id]
       IN [pendingRequests |-> MapDelete(pendingRequests, id),
           timers |-> timers \ {c},
           call |-> IF Truthy(line.error)
                    THEN Settle(call, c, Rejected(line.error), line)
                    ELSE Settle(call, c, Resolved(line.letter, line.confidence), line)]

(* Variant: an error line fails every pending request.                     *)
lineHandler_rejectAll(line) ==
  IF trim(line) = "" \/ ~JSONparses(line) \/ line.id \notin DOMAIN pendingRequests
  THEN [pendingRequests |-> pendingRequests, timers |-> timers, call |-> call]
  ELSE LET c == pendingRequests[line.id]
       IN IF Truthy(line.error)
          THEN [pendingRequests |-> [k \in {} |-> 0],
                timers |-> timers \ Pending(pendingRequests),
                call |-> [d \in Calls |->
                            IF d \in Pending(pendingRequests)
                            THEN Settle(call, d, Rejected(line.error), line)[d]
                            ELSE call[d]]]
          ELSE [pendingRequests |-> MapDelete(pendingRequests, line.id),
                timers |-> timers \ {c},
                call |-> Settle(call, c, Resolved(line.letter, line.confidence), line)]

(* Variant: the line settles its request and leaves the entry in the map. *)
lineHandler_keepEntry(line) ==
  IF trim(line) = "" \/ ~JSONparses(line) \/ line.id \notin DOMAIN pendingRequests
  THEN [pendingRequests |-> pendingRequests, timers |-> timers, call |-> call]
  ELSE LET c == pendingRequests[line.id]
       IN [pendingRequests |-> pendingRequests,
           timers |-> timers \ {c},
           call |-> IF Truthy(line.error)
                    THEN Settle(call, c, Rejected(line.error), line)
                    ELSE Settle(call, c, Resolved(line.letter, line.confidence), line)]

lineHandler(line) ==
  IF trim(line) = "" \/ ~JSONparses(line) \/ line.id \notin DOMAIN pendingRequests
  THEN [pendingRequests |-> pendingRequests, timers |-> timers, call |-> call]
  ELSE LET c == pendingRequests[line.id]
       IN [pendingRequests |-> MapDelete(pendingRequests, line.id),
           timers |-> timers \ {c},
           call |-> IF Truthy(line.error)
                    THEN Settle(call, c, Rejected(line.error), line)
                    ELSE Settle(call, c, Resolved(line.letter, line.confidence), line)]

(* Variant: the timer callback gives up every pending request.             *)
timeoutHandler_rejectAll(c) ==
  IF call[c].id \in DOMAIN pendingRequests
  THEN [pendingRequests |-> [k \in {} |-> 0],
        call |-> [d \in Calls |->
                    IF d \in Pending(pendingRequests)
                    THEN Settle(call, d, Rejected(TimedOut), NoLine)[d]
                    ELSE call[d]]]
  ELSE [pendingRequests |-> pendingRequests, call |-> call]

(* Variant: the timer callback rejects and leaves the entry in the map.    *)
timeoutHandler_keepEntry(c) ==
  IF call[c].id \in DOMAIN pendingRequests
  THEN [pendingRequests |-> pendingRequests,
        call |-> Settle(call, c, Rejected(TimedOut), NoLine)]
  ELSE [pendingRequests |-> pendingRequests, call |-> call]

timeoutHandler(c) ==
  IF call[c].id \in DOMAIN pendingRequests
  THEN [pendingRequests |-> MapDelete(pendingRequests, call[c].id),
        call |-> Settle(call, c, Rejected(TimedOut), NoLine)]
  ELSE [pendingRequests |-> pendingRequests, call |-> call]

(* Variant: the exit listener cleans up and forgets the pending callers.   *)
exitHandler_silent(prcs) ==
  [cleanup |-> cleanupWorker(prcs),
   procs |-> prcs,
   timers |-> timers,
   call |-> call,
   pendingRequests |-> pendingRequests]

(* Variant: the exit listener clears the timers and the map and rejects   *)
(* nobody.                                                                 *)
exitHandler_forgets(prcs) ==
  [cleanup |-> cleanupWorker(prcs),
   procs |-> prcs,
   timers |-> timers \ Pending(pendingRequests),
   call |-> call,
   pendingRequests |-> [k \in {} |-> 0]]

(* Variant: the exit listener starts the next worker at once.              *)
exitHandler_respawn(prcs) ==
  LET fresh == {p \in Procs : prcs[p] = "unspawned"}
      next == IF fresh = {} THEN NoProcess
              ELSE CHOOSE p \in fresh : \A q \in fresh : p <= q
  IN [cleanup |-> [cleanupWorker(prcs) EXCEPT !.pythonProcess = next,
                                             !.stdoutInterface = next],
      procs |-> IF next = NoProcess THEN prcs ELSE [prcs EXCEPT ![next] = "running"],
      timers |-> timers \ Pending(pendingRequests),
      call |-> [c \in Calls |->
                  IF c \in Pending(pendingRequests)
                  THEN Settle(call, c, Rejected(WorkerExited), NoLine)[c]
                  ELSE call[c]],
      pendingRequests |-> [k \in {} |-> 0]]

exitHandler(prcs) ==
  [cleanup |-> cleanupWorker(prcs),
   procs |-> prcs,
   timers |-> timers \ Pending(pendingRequests),
   call |-> [c \in Calls |->
               IF c \in Pending(pendingRequests)
               THEN Settle(call, c, Rejected(WorkerExited), NoLine)[c]
               ELSE call[c]],
   pendingRequests |-> [k \in {} |-> 0]]

(* `req_${Date.now()}_${++requestCounter}`: the two numbers, kept apart   *)
(* by the underscore.                                                      *)
(* Variant: the id is made of the time alone.                              *)
requestIdOf_timeOnly(t, n) == [t |-> t, n |-> 1]

requestIdOf(t, n) == [t |-> t, n |-> n]

(* ---- the actions --------------------------------------------------------- *)
(* classifyLetterFromBase64 up to its await: ensureWorker.  Calls are     *)
(* numbered in the order they are made.                                    *)
Classify(c) ==
  /\ microtasks = <<>>
  /\ call[c].pc = "idle"
  /\ \A d \in Calls : d < c => call[d].pc # "idle"
  /\ pythonProcess = NoProcess => \E p \in Procs : procs[p] = "unspawned"
  /\ pythonProcess' = startWorker.pythonProcess
  /\ stdoutInterface' = startWorker.stdoutInterface
  /\ procs' = startWorker.procs
  /\ IF workerReady
     THEN /\ microtasks' = <<c>>
          /\ call' = [call EXCEPT ![c].pc = "released"]
          /\ UNCHANGED readyCallbacks
     ELSE /\ readyCallbacks' = Append(readyCallbacks, c)
          /\ call' = [call EXCEPT ![c].pc = "waiting"]
          /\ UNCHANGED microtasks
  /\ wlast' = WOther
  /\ UNCHANGED <<requestCounter, pendingRequests, workerReady, killed, observed,
                 timers, clock>>
  /\ UNCHANGED <<hubvars, clientvars>>

(* classifyLetterFromBase64 after its await.                                *)
Continue ==
  /\ microtasks # <<>>
  /\ microtasks' = Tail(microtasks)
  /\ LET c == Head(microtasks)
         requestId == requestIdOf(clock, requestCounter + 1)
         registered == [call EXCEPT ![c] = [@ EXCEPT !.id = requestId, !.issued = clock]]
     IN /\ wlast' = WOther
        /\ IF pythonProcess = NoProcess \/ pythonProcess \in killed
           THEN /\ call' = Settle(call, c, Rejected(NotAvailable), NoLine)
                /\ UNCHANGED <<requestCounter, pendingRequests, timers>>
           ELSE /\ requestCounter' = requestCounter + 1
                /\ \E w \in WriteOutcomes :
                     IF w = "written"
                     THEN /\ pendingRequests' = MapSet(pendingRequests, requestId, c)
                          /\ timers' = timers \cup {c}
                          /\ call' = [registered EXCEPT ![c] =
                                        [@ EXCEPT !.pc = "pending",
                                                  !.proc = pythonProcess,
                                                  !.early = pythonProcess \notin observed]]
                     ELSE /\ call' = Settle(registered, c, Rejected(WriteFailed), NoLine)
                          /\ UNCHANGED <<pendingRequests, timers>>
  /\ UNCHANGED <<pythonProcess, stdoutInterface, workerReady, readyCallbacks, killed,
                 procs, observed, clock>>
  /\ UNCHANGED <<hubvars, clientvars>>

(* pythonProcess.stderr.on("data").  The listener stays on the stream of  *)
(* a process after cleanupWorker and after its exit event, and a pipe can *)
(* deliver what the process wrote before it died.  A worker prints its    *)
(* sentinel once.                                                          *)
Stderr(p, message) ==
  /\ microtasks = <<>>
  /\ procs[p] # "unspawned"
  /\ includesReady(message) => p \notin observed
  /\ IF includesReady(message)
     THEN /\ workerReady' = TRUE
          /\ microtasks' = readyCallbacks
          /\ call' = [c \in Calls |->
                        IF c \in Range(readyCallbacks)
                        THEN [call[c] EXCEPT !.pc = "released"] ELSE call[c]]
          /\ readyCallbacks' = <<>>
          /\ observed' = observed \cup {p}
     ELSE UNCHANGED <<workerReady, microtasks, call, readyCallbacks, observed>>
  /\ wlast' = IF includesReady(message) THEN WLast("ready", 0, NoId, {}) ELSE WOther
  /\ UNCHANGED <<pythonProcess, stdoutInterface, requestCounter, pendingRequests,
                 killed, procs, timers, clock>>
  /\ UNCHANGED <<hubvars, clientvars>>

(* stdoutInterface.on("line"): lines come while the interface is open.    *)
Line(c, k) ==
  /\ microtasks = <<>>
  /\ stdoutInterface # NoProcess
  /\ c \in Calls => call[c].id # NoId
  /\ LET line == LineInput(c, k) IN
     /\ pendingRequests' = lineHandler(line).pendingRequests
     /\ timers' = lineHandler(line).timers
     /\ call' = lineHandler(line).call
     /\ wlast' = WLast("line", 0, line.id, {})
  /\ UNCHANGED <<pythonProcess, stdoutInterface, requestCounter, workerReady,
                 readyCallbacks, killed, procs, observed, microtasks, clock>>
  /\ UNCHANGED <<hubvars, clientvars>>

(* The setTimeout callback of a call, no earlier than its delay.           *)
Timeout(c) ==
  /\ microtasks = <<>>
  /\ c \in timers
  /\ clock >= call[c].issued + REQUEST_TIMEOUT_MS
  /\ timers' = timers \ {c}
  /\ pendingRequests' = timeoutHandler(c).pendingRequests
  /\ call' = timeoutHandler(c).call
  /\ wlast' = WLast("timeout", c, NoId, {})
  /\ UNCHANGED <<pythonProcess, stdoutInterface, requestCounter, workerReady,
                 readyCallbacks, killed, procs, observed, microtasks, clock>>
  /\ UNCHANGED <<hubvars, clientvars>>

(* pythonProcess.on("exit") of process p: a crash, or the end of a        *)
(* process that was killed.  The listener works on the module state,     *)
(* whichever process that state belongs to by clock.                         *)
Exit(p) ==
  /\ microtasks = <<>>
  /\ procs[p] = "running"
  /\ LET prcs == [procs EXCEPT ![p] = "exited"]
         h == exitHandler(prcs)
     IN /\ procs' = h.procs
        /\ stdoutInterface' = h.cleanup.stdoutInterface
        /\ killed' = h.cleanup.killed
        /\ pythonProcess' = h.cleanup.pythonProcess
        /\ workerReady' = h.cleanup.workerReady
        /\ readyCallbacks' = h.cleanup.readyCallbacks
        /\ timers' = h.timers
        /\ call' = h.call
        /\ pendingRequests' = h.pendingRequests
  /\ wlast' = WLast("exit", 0, NoId, Pending(pendingRequests))
  /\ UNCHANGED <<requestCounter, observed, microtasks, clock>>
  /\ UNCHANGED <<hubvars, clientvars>>

stopClassifier ==
  /\ microtasks = <<>>
  /\ stdoutInterface' = cleanupWorker(procs).stdoutInterface
  /\ killed' = cleanupWorker(procs).killed
  /\ pythonProcess' = cleanupWorker(procs).pythonProcess
  /\ workerReady' = cleanupWorker(procs).workerReady
  /\ readyCallbacks' = cleanupWorker(procs).readyCallbacks
  /\ wlast' = WOther
  /\ UNCHANGED <<requestCounter, pendingRequests, procs, observed, call, microtasks,
                 timers, clock>>
  /\ UNCHANGED <<hubvars, clientvars>>

Tick ==
  /\ microtasks = <<>>
  /\ clock < MaxTicks * TickMs
  /\ clock' = clock + TickMs
  /\ wlast' = WOther
  /\ UNCHANGED <<pythonProcess, stdoutInterface, requestCounter, pendingRequests,
                 workerReady, readyCallbacks, killed, procs, observed, call,
                 microtasks, timers>>
  /\ UNCHANGED <<hubvars, clientvars>>

NextWorker ==
  \/ \E c \in Calls : Classify(c)
  \/ Continue
  \/ \E p \in Procs, message \in StderrInputs : Stderr(p, message)
  \/ \E c \in Calls \cup {0}, k \in LineKinds : Line(c, k)
  \/ \E c \in Calls : Timeout(c)
  \/ \E p \in Procs : Exit(p)
  \/ stopClassifier
  \/ Tick

SpecWorker == Init /\ [][NextWorker]_vars

(* ------------- POST /api/asl/classify in front of the supervisor ------- *)
(* req.body.image of a request: absent, empty, or a frame.                 *)
ImageInputs == {Undefined, "", "data:image/jpeg;base64,AAAA"}

(* app.post('/api/asl/classify') up to its await: a request without an    *)
(* image is answered at once, the others call classifyLetterFromBase64.   *)
PostClassify(c, image) ==
  IF ~Truthy(image)
  THEN /\ microtasks = <<>>
       /\ call[c].pc = "idle"
       /\ \A d \in Calls : d < c => call[d].pc # "idle"
       /\ call' = [call EXCEPT ![c].pc = "badrequest"]
       /\ wlast' = WOther
       /\ UNCHANGED <<pythonProcess, stdoutInterface, requestCounter, pendingRequests,
                      workerReady, readyCallbacks, killed, procs, observed, microtasks,
                      timers, clock>>
       /\ UNCHANGED <<hubvars, clientvars>>
  ELSE Classify(c)

(* What the handler answers once the call has settled: res.json(result),  *)
(* or the catch block's 500.                                               *)
NoResponse == [status |-> 0, letter |-> Undefined, confidence |-> Undefined,
               error |-> Undefined]
(* Variant: the catch block answers with res.json.                         *)
httpResponse_hides500(c) ==
  CASE call[c].pc = "badrequest" ->
         [NoResponse EXCEPT !.status = 400, !.error = "Missing image data"]
    [] call[c].outcome.kind = "resolved" ->
         [NoResponse EXCEPT !.status = 200, !.letter = call[c].outcome.letter,
                            !.confidence = call[c].outcome.confidence]
    [] call[c].outcome.kind = "rejected" ->
         [NoResponse EXCEPT !.status = 200, !.error = call[c].outcome.message]
    [] OTHER -> NoResponse

httpResponse(c) ==
  CASE call[c].pc = "badrequest" ->
         [NoResponse EXCEPT !.status = 400, !.error = "Missing image data"]
    [] call[c].outcome.kind = "resolved" ->
         [NoResponse EXCEPT !.status = 200, !.letter = call[c].outcome.letter,
                            !.confidence = call[c].outcome.confidence]
    [] call[c].outcome.kind = "rejected" ->
         [NoResponse EXCEPT !.status = 500,
                            !.error = IF Truthy(call[c].outcome.message)
                                      THEN call[c].outcome.message
                                      ELSE "ASL classification failed"]
    [] OTHER -> NoResponse

(* server.js imports classifyLetterFromBase64 only: nothing in the server *)
(* calls stopClassifier.                                                   *)
NextHttp ==
  \/ \E c \in Calls, image \in ImageInputs : PostClassify(c, image)
  \/ Continue
  \/ \E p \in Procs, message \in StderrInputs : Stderr(p, message)
  \/ \E c \in Calls \cup {0}, k \in LineKinds : Line(c, k)
  \/ \E c \in Calls : Timeout(c)
  \/ \E p \in Procs : Exit(p)
  \/ Tick

SpecHttp == Init /\ [][NextHttp]_vars

(* ------------- the supervisor and a worker that prints any line -------- *)
(* The line listener raises: nothing catches an exception that leaves a    *)
(* listener, the server process ends there and no handler runs after it.   *)
LineThrows(line) ==
  /\ wlast.op # "threw"
  /\ microtasks = <<>>
  /\ stdoutInterface # NoProcess
  /\ trim(line) # ""
  /\ JSONparses(line)
  /\ ~destructures(line)
  /\ wlast' = WLast("threw", 0, line.id, {})
  /\ UNCHANGED <<pythonProcess, stdoutInterface, requestCounter, pendingRequests,
                 workerReady, readyCallbacks, killed, procs, observed, call,
                 microtasks, timers, clock>>
  /\ UNCHANGED <<hubvars, clientvars>>

Running == wlast.op # "threw"
ClassifyRunning(c) == Running /\ Classify(c)
ContinueRunning == Running /\ Continue
StderrRunning(p, message) == Running /\ Stderr(p, message)
LineRunning(c, k) == Running /\ Line(c, k)
TimeoutRunning(c) == Running /\ Timeout(c)
ExitRunning(p) == Running /\ Exit(p)
TickRunning == Running /\ Tick

(* server.js never calls stopClassifier.                                   *)
NextLines ==
  \/ \E c \in Calls : ClassifyRunning(c)
  \/ ContinueRunning
  \/ \E p \in Procs, message \in StderrInputs : StderrRunning(p, message)
  \/ \E c \in Calls \cup {0}, k \in LineKinds : LineRunning(c, k)
  \/ LineThrows(NullLine)
  \/ \E c \in Calls : TimeoutRunning(c)
  \/ \E p \in Procs : ExitRunning(p)
  \/ TickRunning

SpecLines == Init /\ [][NextLines]_vars

(* ------------- the supervisor with its timers and microtasks running --- *)
(* Two calls.  A worker answers only requests that were written to it;    *)
(* time passes while a timer is outstanding; the event loop runs every    *)
(* continuation and every timer callback that is due.                      *)
StopCalls == {1, 2}

LineStop(c, k) ==
  /\ c \in Calls => call[c].proc = stdoutInterface
  /\ Line(c, k)

TickStop ==
  /\ microtasks = <<>>
  /\ \E c \in timers : clock < call[c].issued + REQUEST_TIMEOUT_MS
  /\ clock' = clock + TickMs
  /\ wlast' = WOther
  /\ UNCHANGED <<pythonProcess, stdoutInterface, requestCounter, pendingRequests,
                 workerReady, readyCallbacks, killed, procs, observed, call,
                 microtasks, timers>>
  /\ UNCHANGED <<hubvars, clientvars>>

NextStop ==
  \/ \E c \in StopCalls : Classify(c)
  \/ Continue
  \/ \E p \in Procs, message \in StderrInputs : Stderr(p, message)
  \/ \E c \in StopCalls \cup {0}, k \in LineKinds : LineStop(c, k)
  \/ \E c \in StopCalls : Timeout(c)
  \/ \E p \in Procs : Exit(p)
  \/ stopClassifier
  \/ TickStop

SpecStop ==
  /\ Init
  /\ [][NextStop]_vars
  /\ WF_vars(Continue)
  /\ WF_vars(TickStop)
  /\ \A c \in StopCalls : WF_vars(Timeout(c))

(* ------------- the hub and the supervisor in the one server process ---- *)
(* Both live on the one event loop of server.js: their handlers interleave *)
(* in any order. Two connections and one classify request.                 *)
MaxBothEvents == 3

BothSessions == {"s1", "s2"}

OnMessageBoth(ws) ==
  /\ readyState[ws] = OPEN
  /\ nrecv < MaxBothEvents
  /\ \E data \in OrderInbound, now \in Clock :
       Apply(ws, handleMessage(ws, data, now), data, "message")
  /\ UNCHANGED <<history, clientvars>>

NextBoth ==
  \/ \E ws \in BothSessions : Connection(ws)
  \/ \E ws \in BothSessions : OnMessageBoth(ws)
  \/ \E ws \in BothSessions : OnClose(ws)
  \/ Classify(1)
  \/ Continue
  \/ \E message \in StderrInputs : Stderr(1, message)
  \/ \E c \in {0, 1}, k \in LineKinds : Line(c, k)
  \/ Timeout(1)
  \/ Exit(1)
  \/ stopClassifier
  \/ Tick

SpecBoth == Init /\ [][NextBoth]_vars

(* ====================== the claims about the hub ======================= *)
(* The value the receiving client reads for property f of a message.     *)
Prop(w, f) == IF f \in DOMAIN w THEN w[f] ELSE Undefined
Members(rms, k) == IF k \in DOMAIN rms THEN Range(rms[k]) ELSE {}
RoomsOf(rms, s) == {k \in DOMAIN rms : s \in Range(rms[k])}
Count(seq, P(_)) == Cardinality({i \in 1..Len(seq) : P(seq[i])})
IsSend(e, t, type) == e.kind = "send" /\ e.to = t /\ e.msg.type = type
Index(seq, P(_)) == {i \in 1..Len(seq) : P(seq[i])}

Forwarded ==
  /\ last.op = "message"
  /\ last.data.type \in ForwardTypes
  /\ Truthy(currentRoom[last.ws])
Joined == last.op = "message" /\ last.data.type = "join"

(* C1 (as stated): a message relayed for session S in room R reaches every *)
(* other current member of R exactly once and never S.                     *)
C1_FanoutToEveryMember ==
  Forwarded =>
    \A t \in Sessions :
      Count(trace, LAMBDA e : IsSend(e, t, last.data.type))
        = IF t \in Members(rooms, currentRoom[last.ws]) /\ t # last.ws THEN 1 ELSE 0

(* C1 (amended): a message relayed for session S in room R reaches every   *)
(* other current member of R whose connection is open exactly once, and    *)
(* reaches neither S nor a member whose connection is not open.            *)
C1_FanoutToOpenMembers ==
  Forwarded =>
    \A t \in Sessions :
      Count(trace, LAMBDA e : IsSend(e, t, last.data.type))
        = IF /\ t \in Members(rooms, currentRoom[last.ws])
             /\ t # last.ws
             /\ readyState[t] = OPEN
          THEN 1 ELSE 0

C1_Witness ==
  /\ Forwarded
  /\ \E t \in Sessions \ {last.ws} :
       Count(trace, LAMBDA e : IsSend(e, t, last.data.type)) = 1

(* C2: a room identifier is a key of the registry exactly when the room    *)
(* has a member: no key maps to an empty member set, and the room of every *)
(* connected session that the hub holds as joined is a key with that       *)
(* session among its members.                                              *)
C2_NoEmptyRoom ==
  /\ \A k \in DOMAIN rooms : Len(rooms[k]) > 0
  /\ \A s \in Sessions :
       (readyState[s] \in {OPEN, CLOSING} /\ Truthy(currentRoom[s]))
         => s \in Members(rooms, currentRoom[s])

C2_Witness ==
  /\ last.op \in {"message", "close"}
  /\ \E k \in DOMAIN last.pre : k \notin DOMAIN rooms /\ last.ws \in Range(last.pre[k])

(* C3: a session is a member of at most one room, whatever roomId values   *)
(* its joins carried.                                                      *)
C3_AtMostOneRoom ==
  \A s \in Sessions : Cardinality(RoomsOf(rooms, s)) <= 1

(* C4: once the close event of a session has been handled, the session is  *)
(* a member of no room.                                                    *)
C4_ClosedInNoRoom ==
  \A s \in Sessions : readyState[s] = CLOSED => RoomsOf(rooms, s) = {}

(* C5: when a member of room A joins room B, it is removed from A and      *)
(* peer-left is sent to the remaining (open) members of A before it is     *)
(* inserted into B and before joined or peer-joined is sent.               *)
C5_LeaveBeforeJoin ==
  Joined =>
    \A A \in RoomsOf(last.pre, last.ws) \ {last.data.roomId} :
      LET dels == Index(trace, LAMBDA e : e.kind = "delete" /\ e.to = last.ws /\ e.room = A)
          adds == Index(trace, LAMBDA e : e.kind = "add" /\ e.to = last.ws)
          lefts == Index(trace, LAMBDA e : e.kind = "send" /\ e.msg.type = "peer-left")
          joins == Index(trace, LAMBDA e : e.kind = "send" /\ e.msg.type \in {"joined", "peer-joined"})
      IN /\ last.ws \notin Members(rooms, A)
         /\ dels # {}
         /\ \A t \in Members(last.pre, A) \ {last.ws} :
              readyState[t] = OPEN =>
                \E i \in lefts : trace[i].to = t /\ trace[i].room = A
         /\ \A i \in dels \cup lefts : \A j \in adds \cup joins : i < j

(* C6: every message the hub relays for a room goes to a session that is   *)
(* a member of that room at that moment and is not the session it is       *)
(* relayed for; anything else the hub sends is a reply to the session      *)
(* whose message it is handling.                                           *)
C6_RoomIsolation ==
  \A i \in 1..Len(trace) :
    trace[i].kind = "send" =>
      IF trace[i].room = Null
      THEN trace[i].to = last.ws
      ELSE /\ trace[i].to # last.ws
           /\ trace[i].to \in
                IF trace[i].msg.type = "peer-left"
                THEN Members(last.pre, trace[i].room)
                ELSE Members(rooms, trace[i].room)

C6_Witness ==
  /\ Forwarded
  /\ \E i \in 1..Len(trace) : trace[i].kind = "send" /\ trace[i].room = currentRoom[last.ws]
  /\ \E u \in Sessions :
       /\ readyState[u] = OPEN
       /\ u \notin Members(rooms, currentRoom[last.ws])

(* C7: a forwarded message carries every field of the sender's payload     *)
(* unchanged except `from`, and its `from` is the userId the hub holds for *)
(* the sender, whatever `from` the client wrote.                           *)
C7_FromStamped ==
  Forwarded =>
    \A i \in 1..Len(trace) :
      /\ trace[i].kind = "send"
      /\ Prop(trace[i].msg, "from") = userId[last.ws]
      /\ \A f \in Fields \ {"from"} : Prop(trace[i].msg, f) = last.data[f]

C7_Witness ==
  /\ Forwarded
  /\ Len(trace) > 0
  /\ Truthy(last.data.from)
  /\ last.data.from # userId[last.ws]

(* C8 (as stated): on a join to room R the joiner gets exactly one joined  *)
(* reply with R and its userId, every other member of R gets exactly one   *)
(* peer-joined with the joiner's userId, and the joiner gets none.         *)
JoinedReplyOnce ==
  /\ Count(trace, LAMBDA e : e.kind = "send" /\ e.msg.type = "joined") = 1
  /\ \A i \in 1..Len(trace) :
       (trace[i].kind = "send" /\ trace[i].msg.type = "joined") =>
          /\ trace[i].to = last.ws
          /\ Prop(trace[i].msg, "roomId") = last.data.roomId
          /\ Prop(trace[i].msg, "userId") = userId[last.ws]
PeerJoinedTo(t) ==
  Count(trace, LAMBDA e : /\ IsSend(e, t, "peer-joined")
                          /\ Prop(e.msg, "userId") = userId[last.ws])
PeerJoinedOnlyFromJoiner ==
  \A i \in 1..Len(trace) :
    (trace[i].kind = "send" /\ trace[i].msg.type = "peer-joined")
      => Prop(trace[i].msg, "userId") = userId[last.ws]

C8_JoinNotifiesEveryMember ==
  Joined =>
    /\ JoinedReplyOnce
    /\ PeerJoinedOnlyFromJoiner
    /\ \A t \in Sessions :
         PeerJoinedTo(t)
           = IF t \in Members(rooms, last.data.roomId) /\ t # last.ws THEN 1 ELSE 0

(* C8 (amended): on a join to room R the joiner gets exactly one joined    *)
(* reply with R and its userId, every other member of R whose connection   *)
(* is open gets exactly one peer-joined with the joiner's userId, and the  *)
(* joiner gets none.                                                       *)
C8_JoinNotifiesOpenMembers ==
  Joined =>
    /\ JoinedReplyOnce
    /\ PeerJoinedOnlyFromJoiner
    /\ \A t \in Sessions :
         PeerJoinedTo(t)
           = IF /\ t \in Members(rooms, last.data.roomId)
                /\ t # last.ws
                /\ readyState[t] = OPEN
             THEN 1 ELSE 0

C8_Witness ==
  /\ Joined
  /\ Cardinality({t \in Sessions : PeerJoinedTo(t) = 1}) >= 2

(* C9: when a session that is a member of a room disconnects, it is        *)
(* removed from the room, every remaining (open) member gets one peer-left *)
(* with its userId, it gets nothing itself, and the room has one member    *)
(* less (and is deleted when none is left).                                *)
C9_DisconnectLeaves ==
  last.op = "close" =>
    \A R \in RoomsOf(last.pre, last.ws) :
      /\ last.ws \notin Members(rooms, R)
      /\ Cardinality(Members(rooms, R)) = Cardinality(Members(last.pre, R)) - 1
      /\ (Members(rooms, R) = {} <=> R \notin DOMAIN rooms)
      /\ \A t \in Members(rooms, R) :
           readyState[t] = OPEN =>
             Count(trace, LAMBDA e : /\ IsSend(e, t, "peer-left")
                                     /\ Prop(e.msg, "from") = userId[last.ws]) = 1
      /\ \A i \in 1..Len(trace) : trace[i].kind = "send" => trace[i].to # last.ws

SenderOf(n) == history[CHOOSE i \in 1..Len(history) : history[i].ev = "recv" /\ history[i].n = n].ws
ErrorReply ==
  <<[kind |-> "send", to |-> last.ws, room |-> Null,
     msg |-> [type |-> "error", message |-> "Invalid message format"]]>>

(* C12: a malformed inbound message (text that is no JSON, a join without  *)
(* a roomId) gets an error reply to its sender only, is relayed to nobody, *)
(* leaves the registry and the sender's joined state unchanged and leaves  *)
(* the connection open.                                                    *)
C12_MalformedRejected ==
  (last.op = "malformed" \/ (Joined /\ last.data.roomId = Undefined)) =>
    /\ trace = ErrorReply
    /\ rooms = last.pre
    /\ currentRoom[last.ws] = last.cur
    /\ readyState[last.ws] = OPEN

(* C13: a message of a type the switch does not know, and a forward-type   *)
(* message of a session the hub does not hold as joined (which every       *)
(* session that is a member of no room is), are relayed to nobody and      *)
(* change neither the registry nor the sender's joined state.              *)
Unrouted ==
  /\ last.op = "message"
  /\ \/ last.data.type \notin ForwardTypes \cup {"join", "leave"}
     \/ last.data.type \in ForwardTypes /\ ~Truthy(last.cur)
C13_UnroutedIgnored ==
  /\ \A s \in Sessions :
       (readyState[s] = OPEN /\ RoomsOf(rooms, s) = {}) => ~Truthy(currentRoom[s])
  /\ Unrouted =>
       /\ trace = <<>>
       /\ rooms = last.pre
       /\ currentRoom[last.ws] = last.cur

C13_Witness ==
  /\ Unrouted
  /\ last.data.type \notin ForwardTypes
  /\ Truthy(last.cur)
  /\ Members(rooms, last.cur) \ {last.ws} # {}

(* C14: after an explicit leave the session is a member of no room and the *)
(* hub holds it as unjoined; a leave of a session that is in no room       *)
(* changes nothing and sends nothing.                                      *)
C14_LeaveUnjoins ==
  (last.op = "message" /\ last.data.type = "leave") =>
    /\ RoomsOf(rooms, last.ws) = {}
    /\ ~Truthy(currentRoom[last.ws])
    /\ RoomsOf(last.pre, last.ws) = {} => (rooms = last.pre /\ trace = <<>>)

(* C11: when the send to one member of the room raises, the relayed        *)
(* message still reaches every other member of the room whose connection   *)
(* is open and works, except the sender.                                   *)
C11_BestEffortFanout ==
  Forwarded =>
    \A t \in Members(rooms, currentRoom[last.ws]) \ {last.ws} :
      (readyState[t] = OPEN /\ t \notin sendFails) =>
         Count(trace, LAMBDA e : IsSend(e, t, last.data.type)) = 1

(* =============== the claims about the classifier worker ================ *)
Live == {p \in Procs : procs[p] = "running" /\ p \notin killed}
Waiting == {c \in Calls : call[c].pc = "waiting"}

(* C15: the classify calls made while there is no worker or while it is   *)
(* starting cause one spawn (never a second live process), and when the   *)
(* readiness sentinel is observed every waiting caller is released: none  *)
(* is left waiting.                                                        *)
OneSpawn == Cardinality(Live) <= 1 /\ (pythonProcess # NoProcess => Live = {pythonProcess})
C15_CoalescedStart ==
  /\ OneSpawn
  /\ wlast.op = "ready" => Waiting = {}

(* C16: a classify call writes its request line to a worker process (and  *)
(* so can be resolved by it) only after the readiness sentinel of that    *)
(* same process has been observed, on the first start and on every        *)
(* restart after a crash or a stop.                                        *)
C16_WriteAfterOwnSentinel ==
  \A c \in Calls : call[c].proc # NoProcess => ~call[c].early

(* C17: when a worker process exits while N requests are pending, all N   *)
(* are rejected with the worker-exited error, the pending map is empty,   *)
(* there is no process handle and the ready flag is off, and the next     *)
(* classify call spawns a fresh process.                                   *)
C17_ExitRejectsAll ==
  wlast.op = "exit" =>
    /\ DOMAIN pendingRequests = {}
    /\ \A c \in wlast.pre :
         /\ call[c].pc = "settled"
         /\ call[c].outcome = Rejected(WorkerExited)
         /\ call[c].nsettle = 1
    /\ pythonProcess = NoProcess
    /\ stdoutInterface = NoProcess
    /\ ~workerReady
    /\ (\E c \in Calls : call[c].pc = "idle") =>
         /\ startWorker.pythonProcess # NoProcess
         /\ procs[startWorker.pythonProcess] = "unspawned"

C17_Witness ==
  /\ wlast.op = "exit"
  /\ wlast.pre # {}
  /\ \E c \in Calls : call[c].pc = "idle"

(* C18: the timer of a classify call fires no earlier than 30000 ms after *)
(* the request was registered; when it fires with no matching response    *)
(* received, the call is rejected with the timeout error and its pending  *)
(* entry is removed; a response with that id that arrives later, and      *)
(* responses with other ids, settle it no second time and change nothing  *)
(* of its outcome.                                                         *)
C18_TimeoutRejects ==
  /\ wlast.op = "timeout" =>
       /\ call[wlast.call].pc = "settled"
       /\ call[wlast.call].outcome = Rejected(TimedOut)
       /\ clock >= call[wlast.call].issued + REQUEST_TIMEOUT_MS
  /\ \A c \in Calls :
       call[c].outcome = Rejected(TimedOut) =>
         /\ call[c].id \notin DOMAIN pendingRequests
         /\ call[c].nsettle = 1
         /\ call[c].via = NoLine

C18_Witness ==
  /\ wlast.op = "line"
  /\ \E c \in Calls : call[c].outcome = Rejected(TimedOut) /\ wlast.id = call[c].id

(* C19: every classify call eventually settles.  A call that has not      *)
(* settled is settled by one of three things only: its resolve function   *)
(* in readyCallbacks, its continuation in the microtask queue, or its     *)
(* entry in pendingRequests with its timer; so in every state each        *)
(* unsettled call is still held by one of them, also after the worker     *)
(* exits or is stopped before it signals readiness.                        *)
C19_EveryCallCanSettle ==
  \A c \in Calls :
    /\ call[c].pc = "waiting" => c \in Range(readyCallbacks)
    /\ call[c].pc = "released" => c \in Range(microtasks)
    /\ call[c].pc = "pending" =>
         /\ call[c].id \in DOMAIN pendingRequests
         /\ pendingRequests[call[c].id] = c
         /\ c \in timers

(* C20: responses are matched to requests by id: a caller settled by a    *)
(* response line was settled by a line that carries its own id, with that *)
(* line's letter and confidence, or its error, whatever the order of the  *)
(* lines.                                                                  *)
C20_MatchedById ==
  \A c \in Calls :
    /\ call[c].outcome.kind = "resolved" => call[c].via # NoLine
    /\ call[c].via # NoLine =>
         /\ call[c].via.id = call[c].id
         /\ call[c].outcome =
              IF Truthy(call[c].via.error)
              THEN Rejected(call[c].via.error)
              ELSE Resolved(call[c].via.letter, call[c].via.confidence)

C20_Witness ==
  /\ wlast.op = "line"
  /\ \E c, d \in Calls :
       /\ c < d
       /\ wlast.id = call[c].id
       /\ call[c].outcome.kind = "resolved"
       /\ call[d].outcome.kind = "resolved"
       /\ call[c].outcome.letter # call[d].outcome.letter
       /\ call[c].proc = call[d].proc

(* C21: an id is in the pending map exactly while its caller is           *)
(* unsettled: every entry belongs to one registered caller that has not   *)
(* settled, every registered caller that has not settled has its entry,   *)
(* and no caller is resolved or rejected more than once, whatever the     *)
(* interleaving of responses, timeouts, worker exits and write failures.  *)
C21_PendingIffUnsettled ==
  /\ \A id \in DOMAIN pendingRequests :
       /\ call[pendingRequests[id]].pc = "pending"
       /\ call[pendingRequests[id]].id = id
  /\ \A c \in Calls :
       /\ call[c].pc = "pending" => call[c].id \in DOMAIN pendingRequests
       /\ call[c].pc = "settled" => call[c].id \notin DOMAIN pendingRequests
       /\ call[c].nsettle <= 1
       /\ call[c].pc = "settled" <=> call[c].nsettle = 1

(* A call settled by its response, and after it a worker exit that        *)
(* rejected another call.                                                  *)
C21_Witness ==
  /\ wlast.op = "exit"
  /\ wlast.pre # {}
  /\ \E c \in Calls : call[c].via # NoLine /\ c \notin wlast.pre

(* C22: every classify call gets an id that differs from the id of every  *)
(* other call made so far, also across crashes and restarts of the        *)
(* worker, so a new pending entry never takes the place of another.       *)
C22_UniqueIds ==
  /\ \A c, d \in Calls :
       (c # d /\ call[c].id # NoId /\ call[d].id # NoId) => call[c].id # call[d].id
  /\ Cardinality(DOMAIN pendingRequests)
       = Cardinality({c \in Calls : call[c].pc = "pending"})

(* Two requests pending at once, registered at the same clock reading     *)
(* with different worker processes.                                        *)
C22_Witness ==
  \E c, d \in Calls :
    /\ c # d
    /\ call[c].pc = "pending" /\ call[d].pc = "pending"
    /\ call[c].proc # call[d].proc
    /\ call[c].id.t = call[d].id.t

(* C23: a worker process is spawned only as the direct effect of a        *)
(* classify call: every step in which a process starts is the step of a   *)
(* call entering classify; no exit, timer, stop, output or passing of     *)
(* time starts one.                                                        *)
Spawns == \E p \in Procs : procs[p] = "unspawned" /\ procs'[p] # "unspawned"
Issues == \E c \in Calls : call[c].pc = "idle" /\ call'[c].pc \in {"waiting", "released"}
C23_LazyRestart == [][Spawns => Issues]_vars

(* The worker has exited, a timeout's time has passed, and nothing has    *)
(* been spawned in its place.                                              *)
C23_Witness ==
  /\ \E p \in Procs : procs[p] = "exited"
  /\ \E p \in Procs : procs[p] = "unspawned"
  /\ Live = {}
  /\ pythonProcess = NoProcess
  /\ clock >= REQUEST_TIMEOUT_MS

(* C24: at most one worker process exists at a time: no second process is *)
(* spawned while an earlier one has not exited yet, whatever the          *)
(* interleaving of classify calls, worker exits and stopClassifier calls. *)
NotExited == {p \in Procs : procs[p] = "running"}
C24_OneProcessAlive == Cardinality(NotExited) <= 1

(* C25: a response line with an error for the pending id X rejects the    *)
(* request X with that error and nothing else: X's entry and timer go,    *)
(* every other call, entry and timer stays as it was, and the process     *)
(* handle, the readline interface, the ready flag, the waiting callers    *)
(* and the processes are unchanged, so the same process serves the calls  *)
(* that follow.                                                            *)
ErrorLineFor(c) ==
  /\ wlast'.op = "line"
  /\ call[c].pc = "pending"
  /\ wlast'.id = call[c].id
  /\ call'[c].via.error # Undefined
C26_TimeoutFrame ==
  [][wlast'.op = "timeout" =>
       /\ pendingRequests' = MapDelete(pendingRequests, call[wlast'.call].id)
       /\ timers' = timers \ {wlast'.call}
       /\ \A d \in Calls \ {wlast'.call} : call'[d] = call[d]
       /\ UNCHANGED <<pythonProcess, stdoutInterface, workerReady, readyCallbacks,
                      killed, procs, observed, requestCounter, clock>>]_vars

(* A request has timed out while the worker is ready and another request  *)
(* is pending on it, its timer still set.                                  *)
C26_Witness ==
  /\ wlast.op = "timeout"
  /\ workerReady
  /\ pythonProcess \in Live
  /\ \E d \in Calls \ {wlast.call} :
       call[d].pc = "pending" /\ d \in timers /\ call[d].proc = pythonProcess

(* C27: POST /api/asl/classify answers 400 to a request without an image  *)
(* and that request neither spawns a worker nor registers a pending       *)
(* request; it answers 200 with the letter and confidence when classify   *)
(* resolves and 500 with the error's message when classify rejects, for   *)
(* whichever reason.                                                       *)
Answered ==
  \A c \in Calls :
    /\ call[c].pc = "badrequest" => httpResponse(c).status = 400
    /\ call[c].outcome.kind = "resolved" =>
         /\ httpResponse(c).status = 200
         /\ httpResponse(c).letter = call[c].via.letter
         /\ httpResponse(c).confidence = call[c].via.confidence
    /\ call[c].outcome.kind = "rejected" =>
         /\ httpResponse(c).status = 500
         /\ httpResponse(c).error = call[c].outcome.message
    /\ call[c].pc \in {"idle", "waiting", "released", "pending"} =>
         httpResponse(c).status = 0
C27_HttpAnswers ==
  [][/\ Answered'
     /\ \A c \in Calls :
          (call[c].pc = "idle" /\ call'[c].pc = "badrequest") =>
            UNCHANGED <<pythonProcess, stdoutInterface, procs, killed,
                        pendingRequests, timers, requestCounter, readyCallbacks,
                        workerReady>>]_vars

(* One request was turned away with 400 while a worker runs, one got its  *)
(* 500.                                                                    *)
C27_Witness ==
  \E c, d \in Calls :
    /\ httpResponse(c).status = 400
    /\ httpResponse(d).status = 500
    /\ c > d
    /\ pythonProcess # NoProcess

(* C28: the relay path and the classifier path are independent: a relay    *)
(* event (join, leave, forward, disconnect) changes nothing of the         *)
(* supervisor's state, and a classify, worker-response, timeout or         *)
(* worker-exit event changes nothing of the hub's state.                   *)
C28_Independent == [][UNCHANGED hubvars \/ UNCHANGED wvars]_vars

(* An offer was relayed inside a room of two while the classify request    *)
(* was pending on a ready worker.                                          *)
C28_Witness ==
  /\ last.op = "message"
  /\ last.data.type = "offer"
  /\ trace # <<>>
  /\ call[1].pc = "pending"
  /\ workerReady
  /\ DOMAIN pendingRequests # {}

(* C29: once stopClassifier() has been followed by a classify call that    *)
(* spawned a new worker, the exit event of the old process leaves the new  *)
(* process alone: it is not killed, its ready flag and the callers waiting *)
(* for its readiness stay, and no pending request is rejected.             *)
OldExits(p) ==
  /\ procs[p] = "running"
  /\ procs'[p] = "exited"
  /\ pythonProcess # NoProcess
  /\ pythonProcess # p
C29_LateExitHarmless ==
  [][\A p \in Procs :
       OldExits(p) =>
         /\ pythonProcess' = pythonProcess
         /\ killed' = killed
         /\ workerReady' = workerReady
         /\ readyCallbacks' = readyCallbacks
         /\ pendingRequests' = pendingRequests
         /\ call' = call]_vars

(* C30: workerReady is true only while a worker handle exists and the      *)
(* readiness sentinel was seen on the stderr of that very process.         *)
C30_ReadyOfCurrent ==
  workerReady => (pythonProcess # NoProcess /\ pythonProcess \in observed)

(* C31: a request that is pending when stopClassifier() runs is not        *)
(* leaked: its caller is rejected in the end, by the exit listener or by   *)
(* its own timer, and its entry leaves the pending map.                    *)
PendingOnStopped(c) ==
  /\ call[c].pc = "pending"
  /\ call[c].proc \in killed
  /\ call[c].id \in DOMAIN pendingRequests
RejectedAndRemoved(c) ==
  /\ call[c].outcome.kind = "rejected"
  /\ call[c].outcome.message \in {WorkerExited, TimedOut}
  /\ call[c].id \notin DOMAIN pendingRequests
  /\ c \notin timers
C31_StopLeaksNone ==
  \A c \in StopCalls : PendingOnStopped(c) ~> RejectedAndRemoved(c)

(* stopClassifier() has run with two requests pending and the worker has   *)
(* not exited yet.                                                         *)
C31_Witness ==
  /\ pythonProcess = NoProcess
  /\ \A c \in StopCalls : PendingOnStopped(c) /\ procs[call[c].proc] = "running"

(* C32: a room gets at most one peer-left for a membership: every          *)
(* peer-left is sent by the step that takes the session out of the room it *)
(* was a member of, once to a member, so that a leave or a room switch     *)
(* followed by a disconnect sends no second one to the room already left.  *)
PeerLefts == {i \in 1..Len(trace) : trace[i].kind = "send" /\ trace[i].msg.type = "peer-left"}
JoinStep == last.op = "message" /\ last.data.type = "join"
Announced ==
  JoinStep =>
    \A i \in 1..Len(trace) :
      (trace[i].kind = "send" /\ trace[i].msg.type \in {"joined", "peer-joined"}) =>
        trace[i].msg.userId = userId[last.ws]
C33_PeerLeftFrom ==
  [][/\ \A i \in PeerLefts' :
          /\ trace'[i].msg.from = userId[last'.ws]
          /\ trace'[i].room = currentRoom[last'.ws]
     /\ \A ws \in Sessions :
          (userId'[ws] # userId[ws] \/ currentRoom'[ws] \notin {currentRoom[ws], Null}) =>
            (last'.ws = ws /\ (JoinStep' \/ last'.op = "connection"))
     /\ Announced']_vars

(* A session announced as alice joins again without a userId: the room it  *)
(* leaves is told that alice left, and it is announced under a generated   *)
(* userId from then on.                                                    *)
C33_Witness ==
  /\ JoinStep
  /\ last.data.userId = Undefined
  /\ userId[last.ws] # "alice"
  /\ \E i \in PeerLefts : trace[i].msg.from = "alice"

(* C34: a stdout line that is blank, that is not a response record, or     *)
(* whose id is not in the pending map is ignored: the listener returns,    *)
(* no caller is settled, and the pending map, the timers and the worker    *)
(* state are as before.                                                    *)
C34_StrayLineIgnored ==
  [][/\ wlast'.op # "threw"
     /\ (wlast'.op = "line" /\ wlast'.id \notin DOMAIN pendingRequests) =>
          UNCHANGED <<pendingRequests, timers, call, pythonProcess, stdoutInterface,
                      workerReady, readyCallbacks, killed, procs, requestCounter>>]_vars

(* ============== two useWebRTC hooks against the hub ==================== *)
(* The payload of an offer, an answer or an ice-candidate travels in the   *)
(* field sdp.                                                              *)
MaxCandidates == 1

RTCRoom == "r1"
OfferOf(c) == "offer-" \o c
AnswerOf(c) == "answer-" \o c

(* ws.onopen: the join.                                                    *)
onopen(c) ==
  /\ readyState[c] = OPEN
  /\ ~opened[c]
  /\ opened' = [opened EXCEPT ![c] = TRUE]
  /\ \E now \in Clock :
       wsOut' = [wsOut EXCEPT ![c] = Append(@,
                   [EmptyObject EXCEPT !.type = "join", !.roomId = RTCRoom,
                                       !.userId = "user-" \o now])]
  /\ UNCHANGED <<wsIn, pc>>
  /\ UNCHANGED <<aslvars, textvars>>
  /\ UNCHANGED <<hubvars, wvars>>

(* ws.onmessage.  setLocalDescription and setRemoteDescription raise in a  *)
(* signaling state that does not admit the description, and the catch     *)
(* block keeps the handler from sending; an offer that meets a local offer *)
(* is taken with a rollback by some browsers and refused by others.        *)
(* Variant: the hook creates its offer when it is told it has joined.      *)
onmessage_offerOnJoined(c, data, rollback) ==
  LET p == pc[c]
      type == Prop(data, "type")
  IN CASE type \in {"joined", "peer-joined"} ->
            [pc |-> [p EXCEPT !.offers = @ + 1, !.signalingState = "have-local-offer",
                              !.localDescription = OfferOf(c)],
             send |-> <<[EmptyObject EXCEPT !.type = "offer", !.sdp = OfferOf(c)]>>]
       [] type = "offer" ->
            IF p.signalingState = "stable" \/ (p.signalingState = "have-local-offer" /\ rollback)
            THEN [pc |-> [p EXCEPT !.answers = @ + 1, !.signalingState = "stable",
                                   !.remoteDescription = Prop(data, "sdp"),
                                   !.localDescription = AnswerOf(c)],
                  send |-> <<[EmptyObject EXCEPT !.type = "answer", !.sdp = AnswerOf(c)]>>]
            ELSE [pc |-> p, send |-> <<>>]
       [] type = "answer" ->
            IF p.signalingState = "have-local-offer"
            THEN [pc |-> [p EXCEPT !.signalingState = "stable",
                                   !.remoteDescription = Prop(data, "sdp")],
                  send |-> <<>>]
            ELSE [pc |-> p, send |-> <<>>]
       [] OTHER -> [pc |-> p, send |-> <<>>]

onmessage(c, data, rollback) ==
  LET p == pc[c]
      type == Prop(data, "type")
  IN CASE type = "peer-joined" ->
            [pc |-> [p EXCEPT !.offers = @ + 1, !.signalingState = "have-local-offer",
                              !.localDescription = OfferOf(c)],
             send |-> <<[EmptyObject EXCEPT !.type = "offer", !.sdp = OfferOf(c)]>>]
       [] type = "offer" ->
            IF p.signalingState = "stable" \/ (p.signalingState = "have-local-offer" /\ rollback)
            THEN [pc |-> [p EXCEPT !.answers = @ + 1, !.signalingState = "stable",
                                   !.remoteDescription = Prop(data, "sdp"),
                                   !.localDescription = AnswerOf(c)],
                  send |-> <<[EmptyObject EXCEPT !.type = "answer", !.sdp = AnswerOf(c)]>>]
            ELSE [pc |-> p, send |-> <<>>]
       [] type = "answer" ->
            IF p.signalingState = "have-local-offer"
            THEN [pc |-> [p EXCEPT !.signalingState = "stable",
                                   !.remoteDescription = Prop(data, "sdp")],
                  send |-> <<>>]
            ELSE [pc |-> p, send |-> <<>>]
       [] OTHER -> [pc |-> p, send |-> <<>>]

OnMessageClient(c) ==
  /\ wsIn[c] # <<>>
  /\ \E rollback \in BOOLEAN :
       LET r == onmessage(c, Head(wsIn[c]), rollback)
       IN /\ pc' = [pc EXCEPT ![c] = r.pc]
          /\ wsOut' = [wsOut EXCEPT ![c] = @ \o r.send]
  /\ wsIn' = [wsIn EXCEPT ![c] = Tail(@)]
  /\ UNCHANGED opened
  /\ UNCHANGED <<aslvars, textvars>>
  /\ UNCHANGED <<hubvars, wvars>>

(* pc.onicecandidate, once a local description is set.                     *)
onicecandidate(c) ==
  /\ pc[c].localDescription # Null
  /\ pc[c].candidates < MaxCandidates
  /\ readyState[c] = OPEN
  /\ pc' = [pc EXCEPT ![c].candidates = @ + 1]
  /\ wsOut' = [wsOut EXCEPT ![c] = Append(@,
                  [EmptyObject EXCEPT !.type = "ice-candidate", !.sdp = "candidate"])]
  /\ UNCHANGED <<wsIn, opened>>
  /\ UNCHANGED <<aslvars, textvars>>
  /\ UNCHANGED <<hubvars, wvars>>

(* The hub takes the next message of a connection and its ws.send calls    *)
(* reach the receivers in order.                                           *)
Delivered(out, c) ==
  LET mine == SelectSeq(out, LAMBDA e : e.kind = "send" /\ e.to = c)
  IN [i \in 1..Len(mine) |-> mine[i].msg]

OnMessageRTC(ws) ==
  /\ readyState[ws] = OPEN
  /\ wsOut[ws] # <<>>
  /\ \E now \in Clock :
       LET r == handleMessage(ws, Head(wsOut[ws]), now)
       IN /\ Apply(ws, r, Head(wsOut[ws]), "message")
          /\ wsIn' = [c \in RTCClients |-> wsIn[c] \o Delivered(r.out, c)]
  /\ wsOut' = [wsOut EXCEPT ![ws] = Tail(@)]
  /\ UNCHANGED <<history, opened, pc>>
  /\ UNCHANGED <<aslvars, textvars>>

NextRTC ==
  \/ \E ws \in RTCClients : Connection(ws)
  \/ \E c \in RTCClients : onopen(c)
  \/ \E ws \in RTCClients : OnMessageRTC(ws)
  \/ \E c \in RTCClients : OnMessageClient(c)
  \/ \E c \in RTCClients : onicecandidate(c)

SpecRTC == Init /\ [][NextRTC]_vars

(* C35: with two useWebRTC clients in a room, the join of the second makes *)
(* the client that was there create one offer; the joining client creates  *)
(* none, answers the relayed offer once, and the answer reaches the        *)
(* offerer: when nothing is in flight any more, each has the other's       *)
(* description and both connections are stable.                            *)
Quiet == \A c \in RTCClients : opened[c] /\ wsOut[c] = <<>> /\ wsIn[c] = <<>>
C35_OneOffer ==
  IF RTCRoom \in DOMAIN rooms /\ Len(rooms[RTCRoom]) = 2
  THEN LET first == rooms[RTCRoom][1]
           second == rooms[RTCRoom][2]
       IN /\ pc[second].offers = 0
          /\ pc[first].offers <= 1
          /\ pc[first].answers = 0
          /\ pc[second].answers <= 1
          /\ Quiet =>
               /\ pc[first].offers = 1
               /\ pc[second].answers = 1
               /\ pc[second].remoteDescription = OfferOf(first)
               /\ pc[first].remoteDescription = AnswerOf(second)
               /\ pc[first].signalingState = "stable"
               /\ pc[second].signalingState = "stable"
  ELSE \A c \in RTCClients : pc[c].offers = 0 /\ pc[c].answers = 0

(* The handshake is over: the answer has reached the offerer.              *)
C35_Witness ==
  /\ Quiet
  /\ RTCRoom \in DOMAIN rooms
  /\ Len(rooms[RTCRoom]) = 2
  /\ pc[rooms[RTCRoom][1]].remoteDescription = AnswerOf(rooms[RTCRoom][2])

(***************************************************************************)
(* useASLRecognition (src/client/src/hooks/useASLRecognition.ts).  The     *)
(* effect runs when enabled, videoStream or apiUrl change; React runs the  *)
(* cleanup the previous run returned immediately before the next body.    *)
(* `mounted` belongs to one run, processingRef and intervalRef to the      *)
(* hook, so every run shares them.  Confidences are in percent.            *)
(***************************************************************************)
CONFIDENCE_THRESHOLD == 55

Result(kind, letter, confidence) ==
  [kind |-> kind, letter |-> letter, confidence |-> confidence]

NoResult == Result("none", "", 0)

(* What the server can answer: a confident letter (of two), a letter at the *)
(* threshold, a body without letter, a status that is not ok, and a fetch  *)
(* that rejects.                                                           *)
Results ==
  { Result("ok", "A", 90), Result("ok", "B", 90),
    Result("ok", "A", CONFIDENCE_THRESHOLD),
    Result("ok", "", 0), Result("notok", "", 0), Result("rejected", "", 0) }

Request(e, state, result, callback) ==
  [effect |-> e, state |-> state, result |-> result, callback |-> callback]

(* The cleanup function returned by run e; a run that returned early       *)
(* (disabled) returned none.                                               *)
cleanup(e, h) ==
  IF e \in Effects /\ h.mounted[e]
  THEN [mounted |-> [h.mounted EXCEPT ![e] = FALSE],
        intervalRef |-> NoInterval,
        processingRef |-> FALSE]
  ELSE h

(* The body of the effect for run e.                                       *)
body(e, on, h) ==
  IF ~on
  THEN [h EXCEPT !.intervalRef = NoInterval]
  ELSE [h EXCEPT !.mounted[e] = TRUE, !.intervalRef = e]

(* A dependency changes (or the component mounts): cleanup of the last     *)
(* run, then the body of the next.  `on` is enabled && videoStream; a run  *)
(* with on = FALSE after a mounted one is also what unmounting does.       *)
useEffect(on) ==
  /\ effectRuns < MaxEffects
  /\ LET h == body(effectRuns + 1, on,
                   cleanup(effectRuns,
                           [mounted |-> mounted, intervalRef |-> intervalRef,
                            processingRef |-> processingRef]))
     IN /\ mounted' = h.mounted
        /\ intervalRef' = h.intervalRef
        /\ processingRef' = h.processingRef
  /\ effectRuns' = effectRuns + 1
  /\ UNCHANGED requests
  /\ UNCHANGED <<hubvars, wvars, rtcvars, textvars>>

(* captureAndClassify of run e up to its first await, called by the        *)
(* interval of run e or by its initial-capture timer; `ready` is the       *)
(* video element's readiness.                                              *)
captureAndClassify(e, ready) ==
  /\ intervalRef = e \/ mounted[e]
  /\ Len(requests) < MaxRequests
  /\ IF ~mounted[e] \/ processingRef \/ ~ready
     THEN UNCHANGED <<processingRef, requests>>
     ELSE /\ processingRef' = TRUE
          /\ requests' = Append(requests, Request(e, "awaiting", NoResult, "none"))
  /\ UNCHANGED <<mounted, effectRuns, intervalRef>>
  /\ UNCHANGED <<hubvars, wvars, rtcvars, textvars>>

(* How onLetterDetected is invoked, recorded with the state of the run's   *)
(* flag at that moment.                                                    *)
invoked(e) == IF mounted[e] THEN "mounted" ELSE "afterCleanup"

(* The rest of the try block without the two checks of `mounted`.          *)
afterFetch_unchecked(e, result) ==
  IF result.kind # "ok" THEN "none"
  ELSE IF result.letter # "" /\ result.confidence # 0
            /\ result.confidence > CONFIDENCE_THRESHOLD
       THEN invoked(e)
       ELSE "none"

(* The rest of the try block after the awaits of fetch and json: whether   *)
(* onLetterDetected is invoked.                                            *)
afterFetch(e, result) ==
  IF result.kind # "ok" THEN "none"
  ELSE IF ~mounted[e] THEN "none"
  ELSE IF result.letter # "" /\ result.confidence # 0
            /\ result.confidence > CONFIDENCE_THRESHOLD
       THEN IF mounted[e] THEN invoked(e) ELSE "none"
       ELSE "none"

(* The continuation of request r when its fetch settles, through the       *)
(* finally block.  No code of the hook runs between the two awaits, so     *)
(* they are one step.                                                      *)
settle(r, result) ==
  /\ r \in DOMAIN requests
  /\ requests[r].state = "awaiting"
  /\ requests' = [requests EXCEPT ![r] =
       Request(requests[r].effect, "settled", result,
               afterFetch(requests[r].effect, result))]
  /\ processingRef' = FALSE
  /\ UNCHANGED <<mounted, effectRuns, intervalRef>>
  /\ UNCHANGED <<hubvars, wvars, rtcvars, textvars>>

NextASL ==
  \/ \E on \in BOOLEAN : useEffect(on)
  \/ \E e \in Effects, ready \in BOOLEAN : captureAndClassify(e, ready)
  \/ \E r \in 1..MaxRequests, result \in Results : settle(r, result)

SpecASL == Init /\ [][NextASL]_vars

InFlight == {r \in DOMAIN requests : requests[r].state = "awaiting"}

(* C36: at any time the hook has at most one classification request in     *)
(* flight, also across a cleanup followed by a new run of the effect.       *)
C36_OneInFlight == Cardinality(InFlight) <= 1

(* C37: onLetterDetected is never invoked for a request after the cleanup   *)
(* of the effect run that issued it.                                        *)
C37_NoCallbackAfterCleanup ==
  \A r \in DOMAIN requests : requests[r].callback # "afterCleanup"

(* A confident answer came back after the cleanup of its run and the        *)
(* callback was not invoked.                                                *)
C37_Witness ==
  \E r \in DOMAIN requests :
    /\ requests[r].state = "settled"
    /\ ~mounted[requests[r].effect]
    /\ requests[r].result = Result("ok", "A", 90)
    /\ requests[r].callback = "none"

(***************************************************************************)
(* Accumulation of detected letters in VideoCall                           *)
(* (src/client/src/components/VideoCall.tsx).  handleASLLetter is the      *)
(* onLetterDetected of useASLRecognition.  It changes the two refs inside  *)
(* the updater function it passes to setAccumulatedASLText; React calls an *)
(* updater when it renders the queued updates, in the order they were      *)
(* queued, or at once when the component has no update pending.            *)
(* clearASLText assigns the refs directly.  The text is a sequence of      *)
(* letters.                                                                *)
(***************************************************************************)
STABILITY_COUNT == 2

MaxDetections == 4
MaxPending == 2

(* The (letter, confidence) pairs useASLRecognition passes on.             *)
Detectable ==
  {r \in Results : r.kind = "ok" /\ r.letter # "" /\ r.confidence # 0
                   /\ r.confidence > CONFIDENCE_THRESHOLD}

TextState(text, lastLetter, stability, added) ==
  [text |-> text, last |-> lastLetter, stability |-> stability, added |-> added]

(* The updater of handleASLLetter for the k-th detection, applied to the   *)
(* text React hands it and to the refs as they are when it runs.           *)
updater(letter, k, st) ==
  LET stability == IF letter = st.last THEN st.stability + 1 ELSE 1
  IN IF /\ stability >= STABILITY_COUNT
        /\ (Len(st.text) = 0 \/ st.text[Len(st.text)] # letter)
     THEN TextState(Append(st.text, letter), letter, 0,
                    st.added \cup {[letter |-> letter, k |-> k]})
     ELSE TextState(st.text, letter, stability, st.added)

(* One queued update applied: an updater function or a plain value.        *)
applyUpdate(u, st) ==
  IF u.kind = "updater" THEN updater(u.letter, u.k, st)
  ELSE [st EXCEPT !.text = u.text]

RECURSIVE processQueue(_, _)
processQueue(queue, st) ==
  IF queue = <<>> THEN st
  ELSE processQueue(Tail(queue), applyUpdate(Head(queue), st))

Current ==
  TextState(accumulatedASLText, lastLetterRef, letterStabilityRef, grown)

Commit(st) ==
  /\ accumulatedASLText' = st.text
  /\ lastLetterRef' = st.last
  /\ letterStabilityRef' = st.stability
  /\ grown' = st.added

(* handleASLLetter(letter, confidence); `eager` is React computing the     *)
(* update at once, which it does only with nothing pending.                *)
handleASLLetter(letter, confidence, eager) ==
  /\ Len(detections) < MaxDetections
  /\ IF confidence < CONFIDENCE_THRESHOLD
     THEN UNCHANGED textvars
     ELSE /\ detections' = Append(detections, letter)
          /\ lastCall' = "handleASLLetter"
          /\ LET u == [kind |-> "updater", letter |-> letter,
                       k |-> Len(detections) + 1, text |-> <<>>]
             IN IF eager
                THEN /\ updates = <<>>
                     /\ Commit(applyUpdate(u, Current))
                     /\ UNCHANGED updates
                ELSE /\ Len(updates) < MaxPending
                     /\ updates' = Append(updates, u)
                     /\ UNCHANGED <<accumulatedASLText, lastLetterRef,
                                    letterStabilityRef, grown>>
  /\ UNCHANGED <<hubvars, wvars, rtcvars, aslvars>>

(* clearASLText: the text is set through React, the refs directly.         *)
clearASLText ==
  /\ Len(updates) < MaxPending
  /\ updates' = Append(updates, [kind |-> "value", letter |-> "", k |-> 0,
                                 text |-> <<>>])
  /\ lastLetterRef' = Null
  /\ letterStabilityRef' = 0
  /\ lastCall' = "clearASLText"
  /\ UNCHANGED <<accumulatedASLText, detections, grown>>
  /\ UNCHANGED <<hubvars, wvars, rtcvars, aslvars>>

(* React renders VideoCall: the queued updates are applied in order.       *)
render ==
  /\ updates # <<>>
  /\ Commit(processQueue(updates, Current))
  /\ updates' = <<>>
  /\ UNCHANGED <<detections, lastCall>>
  /\ UNCHANGED <<hubvars, wvars, rtcvars, aslvars>>

NextText ==
  \/ \E r \in Detectable, eager \in BOOLEAN :
       handleASLLetter(r.letter, r.confidence, eager)
  \/ clearASLText
  \/ render

SpecText == Init /\ [][NextText]_vars

(* Every letter added was the letter of the detection that added it and of *)
(* the detection before.                                                   *)
GrowsByStable ==
  \A g \in grown :
    /\ g.k >= STABILITY_COUNT
    /\ \A i \in (g.k - STABILITY_COUNT + 1)..g.k : detections[i] = g.letter

NoAdjacentRepeat ==
  \A i \in 1..(Len(accumulatedASLText) - 1) :
    accumulatedASLText[i] # accumulatedASLText[i + 1]

(* Once clearASLText was the last call and its update is rendered, the     *)
(* text is empty and both refs are reset.                                  *)
ClearResetsAll ==
  lastCall = "clearASLText" /\ updates = <<>>
    => /\ accumulatedASLText = <<>>
       /\ lastLetterRef = Null
       /\ letterStabilityRef = 0

(* C38: the text grows only by a letter detected at least two times in a   *)
(* row, never holds two identical adjacent letters, and clearASLText       *)
(* resets the text, the last letter and the stability counter together.    *)
C38_StableText == GrowsByStable /\ NoAdjacentRepeat /\ ClearResetsAll

====
